---- MODULE Spec2Model ----
(***************************************************************************)
(* Student-DB-Management-System: the record store of src/database.py (one  *)
(* SQLite table `student`, one connection per call) and the CSV import of  *)
(* src/student-gui.py that drives it.                                      *)
(*                                                                         *)
(* Text is a sequence of one-character strings, so that str.strip() and    *)
(* int()/float() are computed, not assumed.  A gpa is a tagged value:      *)
(* a real number in thousandths (2.2 is Real(2200)), the float NaN, or     *)
(* None/NULL.                                                              *)
(***************************************************************************)
EXTENDS Integers, Sequences, FiniteSets, TLC

VARIABLES student, sqlite_sequence, last, assigned,
          \* the Graduation Year entry of a dialog and what its validation
          \* made of it
          year_str, year_val,
          \* a store operation in progress: its arguments and position, the
          \* conn of get_db_connection, the number of open connections
          call, conn, connections,
          \* the window: the rows of the table widget, its selected row,
          \* self.selected_record, self.db_id and the Update dialog
          table_items, selection, selected_record, db_id, dialog

vars == <<student, sqlite_sequence, last, assigned, year_str, year_val,
          call, conn, connections,
          table_items, selection, selected_record, db_id, dialog>>

storeVars == <<student, sqlite_sequence, last, assigned>>
entryVars == <<year_str, year_val>>
scopeVars == <<call, conn, connections>>
guiVars == <<table_items, selection, selected_record, db_id, dialog>>

(***************************************************************************)
(* Bounds of the model.                                                    *)
(***************************************************************************)
\* the largest rowid the model lets AUTOINCREMENT hand out
MaxId == 2
\* the largest number of data rows in an imported CSV file
MaxRows == 2
\* the longest text typed into the Graduation Year entry
MaxYearLen == 6

(***************************************************************************)
(* Program constants (config.py), gpa in thousandths.                      *)
(***************************************************************************)
PASS_FAIL_THRESHOLD == 2200
MIN_GPA == 0
MAX_GPA == 4000

(***************************************************************************)
(* Values.                                                                 *)
(***************************************************************************)
Real(v) == [t |-> "real", v |-> v]
NaN == [t |-> "nan", v |-> 0]
NULL == [t |-> "null", v |-> 0]

Whitespace == {" ", "\t", "\n"}

S1 == <<"S", "1">>
S2 == <<"S", "2">>
Ann == <<"A", "n", "n">>
Bo == <<"B", "o">>
Empty == <<>>
Blank == <<" ">>
MailA == <<"a", "@", "x">>
MailB == <<"b", "@", "x">>
Physics == <<"P", "h", "y">>
Chemistry == <<"C", "h", "e">>

\* student ids a caller passes: two proper ones and a text of only whitespace
StudentIds == {S1, S2, Blank}

\* the remaining caller-supplied columns of a call: two students and one
\* with an empty name
Profile(name, age, email, department, graduation_year) ==
    [name |-> name, age |-> age, email |-> email, department |-> department,
     graduation_year |-> graduation_year]

AnnProfile == Profile(Ann, 20, MailA, Physics, 2026)
BoProfile == Profile(Bo, 22, MailB, Chemistry, 2025)
NoNameProfile == Profile(Empty, 21, MailA, Physics, 2026)

\* the (columns, gpa) arguments a caller passes: the gpa floats 2.0, 2.196,
\* 2.2, 3.5 and float('nan')
Inputs ==
    { [p |-> AnnProfile, gpa |-> Real(2000)],
      [p |-> BoProfile, gpa |-> Real(3500)],
      [p |-> AnnProfile, gpa |-> Real(2196)],
      [p |-> BoProfile, gpa |-> Real(2200)],
      [p |-> BoProfile, gpa |-> NaN],
      [p |-> NoNameProfile, gpa |-> Real(2000)] }

\* record ids a caller passes: 0 is not positive, MaxId + 1 never exists
RecordIds == 0..(MaxId + 1)

(***************************************************************************)
(* str.strip() and the `not s or not s.strip()` test.                      *)
(***************************************************************************)
RECURSIVE lstrip(_)
lstrip(s) ==
    IF s = <<>> THEN s
    ELSE IF Head(s) \in Whitespace THEN lstrip(Tail(s)) ELSE s

RECURSIVE rstrip(_)
rstrip(s) ==
    IF s = <<>> THEN s
    ELSE IF s[Len(s)] \in Whitespace THEN rstrip(SubSeq(s, 1, Len(s) - 1))
    ELSE s

strip(s) == rstrip(lstrip(s))

\* only `not s`, without the strip
IsBlankEmptyOnly(s) == s = <<>>

IsBlank(s) == s = <<>> \/ strip(s) = <<>>

(***************************************************************************)
(* calculate_status: float(gpa) raises TypeError for None, which the       *)
(* except clause turns into "FAIL"; NaN < 2.2 is False.                    *)
(***************************************************************************)
calculate_status(gpa) ==
    IF gpa.t = "null" THEN "FAIL"
    ELSE IF gpa.t = "nan" THEN "PASS"
    ELSE IF gpa.v < PASS_FAIL_THRESHOLD THEN "FAIL" ELSE "PASS"

(***************************************************************************)
(* The value SQLite stores for a bound Python float in the REAL column:    *)
(* a NaN is stored as NULL, every other float as itself.                   *)
(***************************************************************************)
BindReal(gpa) == IF gpa.t = "nan" THEN NULL ELSE gpa

(***************************************************************************)
(* Outcomes of a call: exc is "none", "ValueError" or "RuntimeError" (or,  *)
(* inside the connection scope, a sqlite3 error class).                    *)
(***************************************************************************)
NoValue == [kind |-> "none"]

Outcome(exc, msg, table, seq, value) ==
    [exc |-> exc, msg |-> msg, table |-> table, seq |-> seq, value |-> value]

SqliteErrors == {"sqlite3.IntegrityError", "sqlite3.OperationalError"}

(***************************************************************************)
(* get_db_connection: the context manager catches every sqlite3.Error      *)
(* thrown by the body of the `with`, rolls back and raises RuntimeError;   *)
(* any other exception passes through; the connection is closed, which     *)
(* discards whatever the body did not commit.  `before` is the committed   *)
(* content when the connection was opened, `committed` says whether the    *)
(* body reached conn.commit().                                             *)
(***************************************************************************)
get_db_connection(before, beforeSeq, body, committed) ==
    IF body.exc \in SqliteErrors
    THEN Outcome("RuntimeError", "Database Connection Error",
                 before, beforeSeq, NoValue)
    ELSE IF committed THEN body
    ELSE Outcome(body.exc, body.msg, before, beforeSeq, body.value)

(***************************************************************************)
(* The table: UNIQUE(student_id), INTEGER PRIMARY KEY AUTOINCREMENT.       *)
(***************************************************************************)
Ids(table) == {r.id : r \in table}

Max(S) == CHOOSE x \in S : \A y \in S : y <= x

\* a rowid column without AUTOINCREMENT: one more than the largest live rowid
NextRowidMaxLive(table, seq) ==
    IF table = {} THEN 1 ELSE Max(Ids(table)) + 1

\* AUTOINCREMENT: one more than the largest rowid ever held by the table
NextRowid(table, seq) == Max({seq} \cup Ids(table)) + 1

\* a student_id column declared without UNIQUE
UniqueViolatedNever(table, student_id, self) == FALSE

\* the UNIQUE constraint on student_id, for a row other than `self`
UniqueViolated(table, student_id, self) ==
    \E r \in table : r.id # self /\ r.student_id = student_id

Row(id, student_id, p, gpa, status) ==
    [id |-> id, student_id |-> student_id, name |-> p.name, age |-> p.age,
     email |-> p.email, department |-> p.department, gpa |-> BindReal(gpa),
     graduation_year |-> p.graduation_year, status |-> status]

(***************************************************************************)
(* add_student_record                                                      *)
(***************************************************************************)
\* an INSERT OR REPLACE: the row holding the student_id gives way
InsertStudentOrReplace(table, seq, student_id, p, gpa, status) ==
    LET id == NextRowid(table, seq) IN
    Outcome("none", "",
            {r \in table : r.student_id # student_id}
                \cup {Row(id, student_id, p, gpa, status)},
            id, [kind |-> "bool"])

InsertStudent(table, seq, student_id, p, gpa, status) ==
    LET id == NextRowid(table, seq) IN
    IF UniqueViolated(table, student_id, id)
    THEN Outcome("sqlite3.IntegrityError", "UNIQUE constraint failed",
                 table, seq, NoValue)
    ELSE Outcome("none", "", table \cup {Row(id, student_id, p, gpa, status)},
                 id, [kind |-> "bool"])

add_student_record(table, seq, student_id, p, gpa) ==
    IF IsBlank(student_id)
    THEN Outcome("ValueError", "Student ID is Empty", table, seq, NoValue)
    ELSE IF IsBlank(p.name)
    THEN Outcome("ValueError", "Name is Empty", table, seq, NoValue)
    ELSE
      LET status == calculate_status(gpa)
          body == InsertStudent(table, seq, student_id, p, gpa, status)
          out == get_db_connection(table, seq, body, body.exc = "none")
      IN  IF out.exc = "sqlite3.IntegrityError"
          THEN Outcome("ValueError", "Duplicate Student ID",
                       out.table, out.seq, NoValue)
          ELSE IF out.exc \in SqliteErrors
          THEN Outcome("RuntimeError", "Database Insert Error",
                       out.table, out.seq, NoValue)
          ELSE out

(***************************************************************************)
(* search_by_student_id                                                    *)
(***************************************************************************)
search_by_student_id(table, seq, student_id) ==
    IF IsBlank(student_id)
    THEN Outcome("ValueError", "Empty Search", table, seq, NoValue)
    ELSE
      LET found == {r \in table : r.student_id = student_id}
          body ==
            IF found = {}
            THEN Outcome("ValueError", "Student Not Found", table, seq, NoValue)
            ELSE Outcome("none", "", table, seq,
                         [kind |-> "row",
                          row |-> CHOOSE r \in found :
                                     \A q \in found : r.id <= q.id])
      IN  get_db_connection(table, seq, body, FALSE)

(***************************************************************************)
(* update_record                                                           *)
(***************************************************************************)
\* an UPDATE whose rowcount is not looked at
UpdateStudentNoRowcount(table, seq, record_id, student_id, p, gpa, status) ==
    IF record_id \notin Ids(table)
    THEN Outcome("none", "", table, seq, [kind |-> "bool"])
    ELSE IF UniqueViolated(table, student_id, record_id)
    THEN Outcome("sqlite3.IntegrityError", "UNIQUE constraint failed",
                 table, seq, NoValue)
    ELSE Outcome("none", "",
                 {r \in table : r.id # record_id}
                     \cup {Row(record_id, student_id, p, gpa, status)},
                 seq, [kind |-> "bool"])

\* an UPDATE that the UNIQUE constraint does not stop
UpdateStudentNoUnique(table, seq, record_id, student_id, p, gpa, status) ==
    IF record_id \notin Ids(table)
    THEN Outcome("ValueError", "Record Not Found", table, seq, NoValue)
    ELSE Outcome("none", "",
                 {r \in table : r.id # record_id}
                     \cup {Row(record_id, student_id, p, gpa, status)},
                 seq, [kind |-> "bool"])

\* UPDATE student SET ... WHERE id = record_id, then the rowcount test
UpdateStudent(table, seq, record_id, student_id, p, gpa, status) ==
    IF record_id \notin Ids(table)
    THEN \* rowcount = 0
         Outcome("ValueError", "Record Not Found", table, seq, NoValue)
    ELSE IF UniqueViolated(table, student_id, record_id)
    THEN Outcome("sqlite3.IntegrityError", "UNIQUE constraint failed",
                 table, seq, NoValue)
    ELSE Outcome("none", "",
                 {r \in table : r.id # record_id}
                     \cup {Row(record_id, student_id, p, gpa, status)},
                 seq, [kind |-> "bool"])

update_record(table, seq, record_id, student_id, p, gpa) ==
    IF IsBlank(student_id)
    THEN Outcome("ValueError", "Student ID is Empty", table, seq, NoValue)
    ELSE IF IsBlank(p.name)
    THEN Outcome("ValueError", "Name is Empty", table, seq, NoValue)
    ELSE
      LET status == calculate_status(gpa)
          body == UpdateStudent(table, seq, record_id, student_id, p, gpa,
                                status)
          out == get_db_connection(table, seq, body, body.exc = "none")
      IN  IF out.exc \in SqliteErrors
          THEN Outcome("RuntimeError", "Database Update Error",
                       out.table, out.seq, NoValue)
          ELSE out

(***************************************************************************)
(* delete_record                                                           *)
(***************************************************************************)
\* a delete_record that returns without conn.commit()
delete_record_nocommit(table, seq, record_id) ==
    IF record_id <= 0
    THEN Outcome("ValueError", "Invalid Record ID", table, seq, NoValue)
    ELSE
      LET body ==
            IF record_id \notin Ids(table)
            THEN Outcome("ValueError", "Record Not Found", table, seq, NoValue)
            ELSE Outcome("none", "", {r \in table : r.id # record_id}, seq,
                         [kind |-> "bool"])
      IN  get_db_connection(table, seq, body, FALSE)

delete_record(table, seq, record_id) ==
    IF record_id <= 0
    THEN Outcome("ValueError", "Invalid Record ID", table, seq, NoValue)
    ELSE
      LET body ==
            IF record_id \notin Ids(table)
            THEN Outcome("ValueError", "Record Not Found", table, seq, NoValue)
            ELSE Outcome("none", "", {r \in table : r.id # record_id}, seq,
                         [kind |-> "bool"])
          out == get_db_connection(table, seq, body, body.exc = "none")
      IN  IF out.exc \in SqliteErrors
          THEN Outcome("RuntimeError", "Database Delete Error",
                       out.table, out.seq, NoValue)
          ELSE out

(***************************************************************************)
(* get_statistics                                                          *)
(***************************************************************************)
RECURSIVE SumGpa(_)
SumGpa(rows) ==
    IF rows = {} THEN 0
    ELSE LET r == CHOOSE x \in rows : TRUE
         IN  r.gpa.v + SumGpa(rows \ {r})

\* num/den cut off after two decimals
Round2Floor(num, den) == 10 * (num \div (10 * den))

\* round(num/den, 2) of a value in thousandths: the nearest hundredth, an
\* exact tie going to the even hundredth (Python rounds the binary value,
\* which agrees with this for every store of up to three of the gpa values
\* of Inputs)
Round2(num, den) ==
    LET unit == 10 * den
        q == num \div unit
        rem == num % unit
    IN  IF 2 * rem > unit THEN 10 * (q + 1)
        ELSE IF 2 * rem < unit THEN 10 * q
        ELSE IF q % 2 = 0 THEN 10 * q ELSE 10 * (q + 1)

\* SELECT COUNT(gpa): the rows whose gpa is not NULL
CountAllGpa(table) == Cardinality({r \in table : r.gpa.t # "null"})

\* SELECT COUNT(*)
CountAll(table) == Cardinality(table)

CountStatus(table, status) == Cardinality({r \in table : r.status = status})

\* SELECT AVG(gpa): the mean of the non-NULL values, `or 0.0` when there is
\* none, then round(avg_gpa, 2)
AvgGpa(table) ==
    LET rows == {r \in table : r.gpa.t = "real"}
    IN  IF rows = {} THEN 0
        ELSE Round2(SumGpa(rows), Cardinality(rows))

get_statistics(table, seq) ==
    LET body == Outcome("none", "", table, seq,
                        [kind |-> "stats",
                         total |-> CountAll(table),
                         pass |-> CountStatus(table, "PASS"),
                         fail |-> CountStatus(table, "FAIL"),
                         avg_gpa |-> AvgGpa(table)])
    IN  get_db_connection(table, seq, body, FALSE)

(***************************************************************************)
(* int(text) and float(text) as import_csv applies them to a CSV cell:     *)
(* surrounding whitespace is ignored, a sign is allowed, then decimal      *)
(* digits (for float: an optional fraction, or the word nan).  A float is  *)
(* kept in thousandths, so a cell carries at most three fraction digits.   *)
(***************************************************************************)
\* "U+0662" stands for the one character ARABIC-INDIC DIGIT TWO: int, float
\* and the regex class \d take every Unicode decimal digit
Digits == {"0", "1", "2", "3", "4", "5", "6", "7", "8", "9", "U+0662"}

DigitVal(c) ==
    CASE c = "0" -> 0 [] c = "1" -> 1 [] c = "2" -> 2 [] c = "3" -> 3
      [] c = "4" -> 4 [] c = "5" -> 5 [] c = "6" -> 6 [] c = "7" -> 7
      [] c = "8" -> 8 [] c = "9" -> 9 [] c = "U+0662" -> 2

AllDigits(s) == \A i \in 1..Len(s) : s[i] \in Digits

RECURSIVE DigitsValue(_)
DigitsValue(s) ==
    IF s = <<>> THEN 0
    ELSE 10 * DigitsValue(SubSeq(s, 1, Len(s) - 1)) + DigitVal(s[Len(s)])

Unsigned(s) == IF s # <<>> /\ Head(s) \in {"+", "-"} THEN Tail(s) ELSE s

Sign(s) == IF s # <<>> /\ Head(s) = "-" THEN -1 ELSE 1

ParseError == [ok |-> FALSE, v |-> 0, gpa |-> NULL]

int(text) ==
    LET s == strip(text)
        d == Unsigned(s)
    IN  IF d # <<>> /\ AllDigits(d)
        THEN [ok |-> TRUE, v |-> Sign(s) * DigitsValue(d), gpa |-> NULL]
        ELSE ParseError

DotAt(s) == {i \in 1..Len(s) : s[i] = "."}

float(text) ==
    LET s == strip(text)
        d == Unsigned(s)
    IN  IF d = <<"n", "a", "n">>
        THEN [ok |-> TRUE, v |-> 0, gpa |-> NaN]
        ELSE IF DotAt(d) = {}
        THEN IF d # <<>> /\ AllDigits(d)
             THEN [ok |-> TRUE, v |-> 0,
                   gpa |-> Real(Sign(s) * 1000 * DigitsValue(d))]
             ELSE ParseError
        ELSE
          LET i == CHOOSE k \in DotAt(d) : \A j \in DotAt(d) : k <= j
              whole == SubSeq(d, 1, i - 1)
              frac == SubSeq(d, i + 1, Len(d))
              frac3 == frac \o [k \in 1..(3 - Len(frac)) |-> "0"]
          IN  IF /\ AllDigits(whole) /\ AllDigits(frac)
                 /\ Len(whole) + Len(frac) > 0 /\ Len(frac) <= 3
              THEN [ok |-> TRUE, v |-> 0,
                    gpa |-> Real(Sign(s) * (1000 * DigitsValue(whole)
                                            + DigitsValue(frac3)))]
              ELSE ParseError

(***************************************************************************)
(* The Graduation Year entry of the Add and the Update dialog:             *)
(*   year_str = fields["Graduation Year"].get().strip()                    *)
(*   if not re.match(r'^\d{4}$', year_str): raise ValueError(...)          *)
(*   year = int(year_str)                                                  *)
(***************************************************************************)
\* re.match(r'^\d{4}$', s): four \d, then the end of the text or one
\* newline that ends the text
ReMatchYear(s) ==
    /\ Len(s) \in {4, 5}
    /\ \A i \in 1..4 : s[i] \in Digits
    /\ Len(s) = 5 => s[5] = "\n"

NotValidated == [state |-> "entered", v |-> 0]
YearError == [state |-> "ValueError", v |-> 0]
YearOk(v) == [state |-> "ok", v |-> v]

\* the same validation without the .strip() of the entry text
graduation_year_unstripped(text) ==
    IF ~ReMatchYear(text) THEN YearError
    ELSE LET n == int(text)
         IN  IF n.ok THEN YearOk(n.v) ELSE YearError

graduation_year(text) ==
    LET stripped == strip(text)
    IN  IF ~ReMatchYear(stripped) THEN YearError
        ELSE LET n == int(stripped)
             IN  IF n.ok THEN YearOk(n.v) ELSE YearError

(***************************************************************************)
(* import_csv: the data rows of the chosen file, one add_student_record    *)
(* per row.  A ValueError (int/float of a cell, blank id or name) skips    *)
(* the row; any other exception leaves the loop and ends the import, the   *)
(* rows added before it staying committed.                                 *)
(***************************************************************************)
CsvRow(student_id, name, age, email, department, gpa, year) ==
    [StudentID |-> student_id, Name |-> name, Age |-> age, Email |-> email,
     Department |-> department, GPA |-> gpa, GraduationYear |-> year]

CsvRows ==
    { CsvRow(S1, Ann, <<"2", "0">>, MailA, Physics, <<"2", ".", "0">>,
             <<"2", "0", "2", "6">>),
      CsvRow(<<" ", "S", "2">>, Bo, <<"2", "2">>, MailB, Chemistry,
             <<"3", ".", "5">>, <<"2", "0", "2", "5">>),
      CsvRow(S2, Ann, <<"x">>, MailA, Physics, <<"2", ".", "2">>,
             <<"2", "0", "2", "6">>),
      CsvRow(Blank, Bo, <<"2", "2">>, MailB, Chemistry, <<"n", "a", "n">>,
             <<"2", "0", "2", "5">>) }

RECURSIVE SeqsUpTo(_, _)
SeqsUpTo(S, n) ==
    IF n = 0 THEN {<<>>}
    ELSE LET shorter == SeqsUpTo(S, n - 1)
         IN  shorter \cup {Append(f, x) : f \in shorter, x \in S}

CsvFiles == SeqsUpTo(CsvRows, MaxRows)

ImportState(table, seq, imported, skipped, aborted) ==
    [table |-> table, seq |-> seq, imported |-> imported,
     skipped |-> skipped, aborted |-> aborted]

import_row(st, row) ==
    LET age == int(row.Age)
        gpa == float(row.GPA)
        year == int(row.GraduationYear)
    IN  IF ~age.ok \/ ~gpa.ok \/ ~year.ok
        THEN ImportState(st.table, st.seq, st.imported, st.skipped + 1, FALSE)
        ELSE
          LET p == [name |-> strip(row.Name), age |-> age.v,
                    email |-> strip(row.Email),
                    department |-> strip(row.Department),
                    graduation_year |-> year.v]
              out == add_student_record(st.table, st.seq,
                                        strip(row.StudentID), p, gpa.gpa)
          IN  IF out.exc = "none"
              THEN ImportState(out.table, out.seq, st.imported + 1,
                               st.skipped, FALSE)
              ELSE IF out.exc = "ValueError"
              THEN ImportState(out.table, out.seq, st.imported,
                               st.skipped + 1, FALSE)
              ELSE ImportState(out.table, out.seq, st.imported, st.skipped,
                               TRUE)

RECURSIVE import_rows(_, _)
import_rows(st, rows) ==
    IF rows = <<>> \/ st.aborted THEN st
    ELSE import_rows(import_row(st, Head(rows)), Tail(rows))

import_csv(table, seq, rows) ==
    LET st == import_rows(ImportState(table, seq, 0, 0, FALSE), rows)
    IN  Outcome(IF st.aborted THEN "Exception" ELSE "none",
                IF st.aborted THEN "Failed to import CSV" ELSE "",
                st.table, st.seq,
                [kind |-> "import", imported |-> st.imported,
                 skipped |-> st.skipped, rows |-> Len(rows)])

(***************************************************************************)
(* view_all_records: every row, ORDER BY name (the BINARY collation        *)
(* compares character codes; rows of equal name come in rowid order).      *)
(***************************************************************************)
CharCode(c) ==
    CASE c = " " -> 32 [] c = "1" -> 49 [] c = "2" -> 50 [] c = "@" -> 64
      [] c = "A" -> 65 [] c = "B" -> 66 [] c = "C" -> 67 [] c = "P" -> 80
      [] c = "S" -> 83 [] c = "a" -> 97 [] c = "b" -> 98 [] c = "e" -> 101
      [] c = "h" -> 104 [] c = "n" -> 110 [] c = "o" -> 111
      [] c = "x" -> 120 [] c = "y" -> 121

RECURSIVE TextLess(_, _)
TextLess(s, t) ==
    IF t = <<>> THEN FALSE
    ELSE IF s = <<>> THEN TRUE
    ELSE IF Head(s) = Head(t) THEN TextLess(Tail(s), Tail(t))
    ELSE CharCode(Head(s)) < CharCode(Head(t))

RowBefore(r, q) ==
    TextLess(r.name, q.name) \/ (r.name = q.name /\ r.id < q.id)

RECURSIVE OrderByName(_)
OrderByName(table) ==
    IF table = {} THEN <<>>
    ELSE LET first == CHOOSE r \in table :
                          \A q \in table \ {r} : RowBefore(r, q)
         IN  <<first>> \o OrderByName(table \ {first})

\* a cursor.fetchone() in place of fetchall()
view_all_records_one(table, seq) ==
    Outcome("none", "", table, seq,
            [kind |-> "rows",
             rows |-> IF table = {} THEN <<>>
                      ELSE <<Head(OrderByName(table))>>])

view_all_records(table, seq) ==
    get_db_connection(table, seq,
                      Outcome("none", "", table, seq,
                              [kind |-> "rows", rows |-> OrderByName(table)]),
                      FALSE)

(***************************************************************************)
(* export_csv: nothing is written for an empty store; otherwise the header *)
(* and one row per record, every value written as str(value) (None as the  *)
(* empty text).                                                            *)
(***************************************************************************)
DigitChar(d) ==
    CASE d = 0 -> "0" [] d = 1 -> "1" [] d = 2 -> "2" [] d = 3 -> "3"
      [] d = 4 -> "4" [] d = 5 -> "5" [] d = 6 -> "6" [] d = 7 -> "7"
      [] d = 8 -> "8" [] d = 9 -> "9"

RECURSIVE NatText(_)
NatText(n) ==
    IF n < 10 THEN <<DigitChar(n)>>
    ELSE Append(NatText(n \div 10), DigitChar(n % 10))

IntText(n) == IF n < 0 THEN <<"-">> \o NatText(-n) ELSE NatText(n)

RECURSIVE DropTrailingZeros(_)
DropTrailingZeros(s) ==
    IF Len(s) > 1 /\ s[Len(s)] = "0"
    THEN DropTrailingZeros(SubSeq(s, 1, Len(s) - 1))
    ELSE s

\* str() of the stored gpa: repr of the float, '' for None
FloatText(gpa) ==
    IF gpa.t = "null" THEN <<>>
    ELSE IF gpa.t = "nan" THEN <<"n", "a", "n">>
    ELSE LET a == IF gpa.v < 0 THEN -gpa.v ELSE gpa.v
             frac == <<DigitChar((a % 1000) \div 100),
                       DigitChar((a % 100) \div 10), DigitChar(a % 10)>>
         IN  (IF gpa.v < 0 THEN <<"-">> ELSE <<>>)
               \o NatText(a \div 1000) \o <<".">> \o DropTrailingZeros(frac)

ExportHeader ==
    <<"StudentID", "Name", "Age", "Email", "Department", "GPA",
      "GraduationYear", "Status">>

ExportRow(r) ==
    [StudentID |-> r.student_id, Name |-> r.name, Age |-> IntText(r.age),
     Email |-> r.email, Department |-> r.department, GPA |-> FloatText(r.gpa),
     GraduationYear |-> IntText(r.graduation_year), Status |-> r.status]

NoFile == [kind |-> "export", written |-> FALSE, header |-> <<>>,
           rows |-> <<>>]

export_csv(table, seq) ==
    LET records == view_all_records(table, seq).value.rows
    IN  IF records = <<>>
        THEN Outcome("none", "No Records to Export", table, seq, NoFile)
        ELSE Outcome("none", "", table, seq,
                     [kind |-> "export", written |-> TRUE,
                      header |-> ExportHeader,
                      rows |-> [i \in 1..Len(records) |->
                                   ExportRow(records[i])]])

(***************************************************************************)
(* The calls.  `last` is the most recent call, the keys it was given and   *)
(* what it returned or raised; `assigned` is the sequence of rowids handed *)
(* out so far, in order.                                                   *)
(***************************************************************************)
\* no store operation is in progress
NoCall == [pc |-> "idle"]
None == [open |-> FALSE]

ScopeIdle ==
    /\ call = NoCall
    /\ conn = None
    /\ connections = 0

\* self.selected_record = None, self.db_id = None
NoRecord == [id |-> 0]
NoId == 0

Closed == [open |-> FALSE]

\* the window after __init__ on an empty database
GuiIdle ==
    /\ table_items = <<>>
    /\ selection = 0
    /\ selected_record = NoRecord
    /\ db_id = NoId
    /\ dialog = Closed

Call(op, record_id, student_id, out) ==
    [op |-> op, record_id |-> record_id, student_id |-> student_id,
     exc |-> out.exc, msg |-> out.msg, value |-> out.value]

RECURSIVE Ascending(_)
Ascending(S) ==
    IF S = {} THEN <<>>
    ELSE LET m == CHOOSE x \in S : \A y \in S : x <= y
         IN  <<m>> \o Ascending(S \ {m})

Commit(out) ==
    /\ student' = out.table
    /\ sqlite_sequence' = out.seq
    /\ assigned' = assigned \o Ascending(Ids(out.table) \ Ids(student))
    /\ UNCHANGED <<entryVars, scopeVars, guiVars>>

Init ==
    /\ student = {}
    /\ sqlite_sequence = 0
    /\ last = [op |-> "init_database", record_id |-> 0, student_id |-> Empty,
               exc |-> "none", msg |-> "", value |-> NoValue]
    /\ assigned = <<>>
    /\ year_str = <<>>
    /\ year_val = NotValidated
    /\ ScopeIdle
    /\ GuiIdle

AddStudentRecord ==
    \E student_id \in StudentIds, a \in Inputs :
      \E out \in {add_student_record(student, sqlite_sequence, student_id,
                                     a.p, a.gpa)} :
        /\ out.seq <= MaxId
        /\ Commit(out)
        /\ last' = Call("add", 0, student_id, out)

UpdateRecord ==
    \E record_id \in RecordIds \ {0}, student_id \in StudentIds,
       a \in Inputs :
      \E out \in {update_record(student, sqlite_sequence, record_id,
                                student_id, a.p, a.gpa)} :
        /\ Commit(out)
        /\ last' = Call("update", record_id, student_id, out)

DeleteRecord ==
    \E record_id \in RecordIds :
      \E out \in {delete_record(student, sqlite_sequence, record_id)} :
        /\ Commit(out)
        /\ last' = Call("delete", record_id, Empty, out)

SearchByStudentId ==
    \E student_id \in StudentIds :
      \E out \in {search_by_student_id(student, sqlite_sequence,
                                       student_id)} :
        /\ Commit(out)
        /\ last' = Call("search", 0, student_id, out)

GetStatistics ==
    \E out \in {get_statistics(student, sqlite_sequence)} :
      /\ Commit(out)
      /\ last' = Call("statistics", 0, Empty, out)

ImportCsv ==
    \E rows \in CsvFiles :
      \E out \in {import_csv(student, sqlite_sequence, rows)} :
        /\ out.seq <= MaxId
        /\ Commit(out)
        /\ last' = Call("import", 0, Empty, out)

ExportCsv ==
    \E out \in {export_csv(student, sqlite_sequence)} :
      /\ Commit(out)
      /\ last' = Call("export", 0, Empty, out)

Next ==
    \/ AddStudentRecord
    \/ UpdateRecord
    \/ DeleteRecord
    \/ SearchByStudentId
    \/ GetStatistics
    \/ ImportCsv
    \/ ExportCsv

Spec == Init /\ [][Next]_vars

(***************************************************************************)
(* The year validation on its own: a text is in the Graduation Year entry  *)
(* and the dialog's button validates it.                                   *)
(***************************************************************************)
YearAlphabet == {"2", "a", " ", "U+0662"}

YearTexts == SeqsUpTo(YearAlphabet, MaxYearLen)

InitYear ==
    /\ student = {}
    /\ sqlite_sequence = 0
    /\ last = [op |-> "init_database", record_id |-> 0, student_id |-> Empty,
               exc |-> "none", msg |-> "", value |-> NoValue]
    /\ assigned = <<>>
    /\ year_str \in YearTexts
    /\ year_val = NotValidated
    /\ ScopeIdle
    /\ GuiIdle

ValidateGraduationYear ==
    /\ year_val = NotValidated
    /\ year_val' = graduation_year(year_str)
    /\ UNCHANGED <<year_str, storeVars, scopeVars, guiVars>>

NextYear == ValidateGraduationYear

SpecYear == InitYear /\ [][NextYear]_vars

(***************************************************************************)
(* A store operation step by step: the checks before the `with`, then      *)
(* get_db_connection (connect, the body up to conn.commit(), the except    *)
(* clause with its rollback, the finally clause with its close).  A        *)
(* sqlite3.Error can come out of connect, of the statement and of commit.  *)
(***************************************************************************)
ScopeInputs == {[p |-> AnnProfile, gpa |-> Real(2000)],
                [p |-> BoProfile, gpa |-> Real(3500)]}

ScopeCall(op, record_id, student_id, a) ==
    [op |-> op, record_id |-> record_id, student_id |-> student_id, a |-> a]

ScopeCalls ==
    {ScopeCall("add", 0, sid, a) : sid \in StudentIds, a \in ScopeInputs}
    \cup {ScopeCall("update", id, sid, a) :
            id \in RecordIds \ {0}, sid \in StudentIds, a \in ScopeInputs}
    \cup {ScopeCall("delete", id, Empty, CHOOSE a \in ScopeInputs : TRUE) :
            id \in RecordIds}
    \cup {ScopeCall("search", 0, sid, CHOOSE a \in ScopeInputs : TRUE) :
            sid \in StudentIds}

\* the operation as one step
Whole(c, table, seq) ==
    CASE c.op = "add" ->
           add_student_record(table, seq, c.student_id, c.a.p, c.a.gpa)
      [] c.op = "update" ->
           update_record(table, seq, c.record_id, c.student_id, c.a.p,
                         c.a.gpa)
      [] c.op = "delete" -> delete_record(table, seq, c.record_id)
      [] c.op = "search" -> search_by_student_id(table, seq, c.student_id)

\* the checks that raise before the `with`
RaisesBeforeScope(c) ==
    CASE c.op \in {"add", "update"} ->
           IsBlank(c.student_id) \/ IsBlank(c.a.p.name)
      [] c.op = "delete" -> c.record_id <= 0
      [] c.op = "search" -> IsBlank(c.student_id)

\* DELETE FROM student WHERE id = record_id, then the rowcount test
DeleteStudent(table, seq, record_id) ==
    IF record_id \notin Ids(table)
    THEN Outcome("ValueError", "Record Not Found", table, seq, NoValue)
    ELSE Outcome("none", "", {r \in table : r.id # record_id}, seq,
                 [kind |-> "bool"])

\* the body of the `with` up to conn.commit(), on the connection's view
Body(c, table, seq) ==
    CASE c.op = "add" ->
           InsertStudent(table, seq, c.student_id, c.a.p, c.a.gpa,
                         calculate_status(c.a.gpa))
      [] c.op = "update" ->
           UpdateStudent(table, seq, c.record_id, c.student_id, c.a.p,
                         c.a.gpa, calculate_status(c.a.gpa))
      [] c.op = "delete" -> DeleteStudent(table, seq, c.record_id)
      [] c.op = "search" -> search_by_student_id(table, seq, c.student_id)

Commits(c) == c.op \in {"add", "update", "delete"}

Running(c, pc, exc, msg, value) ==
    [pc |-> pc, c |-> c, exc |-> exc, msg |-> msg, value |-> value,
     before |-> student, beforeSeq |-> sqlite_sequence]

Open(table, seq) == [open |-> TRUE, table |-> table, seq |-> seq]

\* a finally clause that runs only when the body raised nothing
ClosesOnSuccess(handle, exc) == handle # None /\ exc = "none"

\* finally: if conn: conn.close()
Closes(handle, exc) == handle # None

BeginCall ==
    /\ call = NoCall
    /\ \E c \in ScopeCalls :
         IF RaisesBeforeScope(c)
         THEN /\ last' = Call(c.op, c.record_id, c.student_id,
                              Whole(c, student, sqlite_sequence))
              /\ UNCHANGED call
         ELSE /\ call' = Running(c, "connect", "none", "", NoValue)
              /\ last' = [op |-> c.op, record_id |-> c.record_id,
                          student_id |-> c.student_id, exc |-> "running",
                          msg |-> "", value |-> NoValue]
    /\ UNCHANGED <<student, sqlite_sequence, assigned, conn, connections,
                   entryVars, guiVars>>

\* conn = sqlite3.connect(db_path)
Connect ==
    /\ call.pc = "connect"
    /\ \/ /\ conn' = Open(student, sqlite_sequence)
          /\ connections' = connections + 1
          /\ call' = [call EXCEPT !.pc = "body"]
       \/ /\ call' = [call EXCEPT !.pc = "except",
                                  !.exc = "sqlite3.OperationalError"]
          /\ UNCHANGED <<conn, connections>>
    /\ UNCHANGED <<storeVars, entryVars, guiVars>>

\* cursor.execute(...) and the tests that follow it
RunBody ==
    /\ call.pc = "body"
    /\ \/ \E out \in {Body(call.c, conn.table, conn.seq)} :
            /\ out.seq <= MaxId
            /\ conn' = Open(out.table, out.seq)
            /\ call' = [call EXCEPT
                          !.exc = out.exc, !.msg = out.msg,
                          !.value = out.value,
                          !.pc = IF out.exc \in SqliteErrors THEN "except"
                                 ELSE IF out.exc = "none" /\ Commits(call.c)
                                 THEN "commit" ELSE "finally"]
       \/ /\ call' = [call EXCEPT !.pc = "except",
                                  !.exc = "sqlite3.OperationalError"]
          /\ UNCHANGED conn
    /\ UNCHANGED <<storeVars, entryVars, guiVars, connections>>

\* conn.commit()
CommitScope ==
    /\ call.pc = "commit"
    /\ \/ /\ student' = conn.table
          /\ sqlite_sequence' = conn.seq
          /\ assigned' = assigned \o Ascending(Ids(conn.table) \ Ids(student))
          /\ call' = [call EXCEPT !.pc = "finally"]
       \/ /\ call' = [call EXCEPT !.pc = "except",
                                  !.exc = "sqlite3.OperationalError"]
          /\ UNCHANGED <<student, sqlite_sequence, assigned>>
    /\ UNCHANGED <<last, conn, connections, entryVars, guiVars>>

\* except sqlite3.Error: if conn: conn.rollback(); raise RuntimeError(...)
ExceptClause ==
    /\ call.pc = "except"
    /\ conn' = IF conn # None THEN Open(student, sqlite_sequence) ELSE conn
    /\ call' = [call EXCEPT !.pc = "finally", !.exc = "RuntimeError",
                            !.msg = "Database Connection Error",
                            !.value = NoValue]
    /\ UNCHANGED <<storeVars, entryVars, guiVars, connections>>

\* finally: if conn: conn.close()
FinallyClause ==
    /\ call.pc = "finally"
    /\ IF Closes(conn, call.exc)
       THEN /\ conn' = None
            /\ connections' = connections - 1
       ELSE UNCHANGED <<conn, connections>>
    /\ call' = [call EXCEPT !.pc = "return"]
    /\ UNCHANGED <<storeVars, entryVars, guiVars>>

\* the operation returns or raises to its caller
ReturnCall ==
    /\ call.pc = "return"
    /\ last' = [op |-> call.c.op, record_id |-> call.c.record_id,
                student_id |-> call.c.student_id, exc |-> call.exc,
                msg |-> call.msg, value |-> call.value]
    /\ call' = NoCall
    /\ conn' = None
    /\ UNCHANGED <<student, sqlite_sequence, assigned, connections,
                   entryVars, guiVars>>

NextScope ==
    \/ BeginCall
    \/ Connect
    \/ RunBody
    \/ CommitScope
    \/ ExceptClause
    \/ FinallyClause
    \/ ReturnCall

SpecScope == Init /\ [][NextScope]_vars

(***************************************************************************)
(* The window (student-gui.py).  The table widget holds the rows the last  *)
(* display_all_records put there, item by item until a row whose gpa is    *)
(* None stops it with the TypeError of f"{None:.2f}".  A click, the        *)
(* context menu and a successful search set self.db_id and                 *)
(* self.selected_record; nothing resets them.  The Update dialog is not    *)
(* modal: its entries are filled when it opens, its button reads           *)
(* self.db_id when it is pressed.                                          *)
(***************************************************************************)
Fields(student_id, name, age, email, department, gpa, year) ==
    [student_id |-> student_id, name |-> name, age |-> age, email |-> email,
     department |-> department, gpa |-> gpa, year |-> year]

SelectDepartment == <<"S", "e", "l", "e", "c", "t">>

InputError(msg) == [ok |-> FALSE, msg |-> msg]

\* the checks of save() and of update() before the database call
dialog_input(f) ==
    IF strip(f.student_id) = <<>> THEN InputError("Student ID Required")
    ELSE IF strip(f.name) = <<>> THEN InputError("Name Required")
    ELSE IF f.department = SelectDepartment
    THEN InputError("Department Required")
    ELSE
      LET age == int(f.age)
          gpa == float(f.gpa)
          yr == graduation_year(f.year)
      IN  IF ~age.ok THEN InputError("Age Invalid Format")
          ELSE IF ~gpa.ok THEN InputError("GPA Invalid Format")
          ELSE IF /\ gpa.gpa.t = "real"
                  /\ (gpa.gpa.v < MIN_GPA \/ gpa.gpa.v > MAX_GPA)
          THEN InputError("Invalid GPA")
          ELSE IF yr.state # "ok" THEN InputError("Year Invalid Format")
          ELSE [ok |-> TRUE, msg |-> "", student_id |-> strip(f.student_id),
                p |-> Profile(strip(f.name), age.v, strip(f.email),
                              f.department, yr.v),
                gpa |-> gpa.gpa]

\* the Save button of the Add dialog
save(table, seq, f) ==
    LET in == dialog_input(f)
    IN  IF ~in.ok THEN Outcome("ValueError", in.msg, table, seq, NoValue)
        ELSE add_student_record(table, seq, in.student_id, in.p, in.gpa)

\* the Update button of the Update dialog, self.db_id being record_id
update(table, seq, record_id, f) ==
    LET in == dialog_input(f)
    IN  IF ~in.ok THEN Outcome("ValueError", in.msg, table, seq, NoValue)
        ELSE update_record(table, seq, record_id, in.student_id, in.p,
                           in.gpa)

\* the student ids of the items display_all_records leaves in the widget
display_all_records(table) ==
    LET rows == OrderByName(table)
        stop == {i \in 1..Len(rows) : rows[i].gpa.t = "null"}
        n == IF stop = {} THEN Len(rows)
             ELSE (CHOOSE i \in stop : \A j \in stop : i <= j) - 1
    IN  [i \in 1..n |-> rows[i].student_id]

\* str() of the columns of self.selected_record in the entries
Prefill(r) ==
    Fields(r.student_id, r.name, IntText(r.age), r.email, r.department,
           IF r.gpa.t = "null" THEN <<"N", "o", "n", "e">>
           ELSE FloatText(r.gpa),
           IntText(r.graduation_year))

\* what is typed into the Add dialog
AddForms ==
    {Fields(S1, Ann, <<"2", "0">>, MailA, Physics, <<"2", ".", "0">>,
            <<"2", "0", "2", "6">>),
     Fields(S2, Bo, <<"2", "2">>, MailB, Chemistry, <<"3", ".", "5">>,
            <<" ", "2", "0", "2", "5">>),
     Fields(S2, Bo, <<"2", "2">>, MailB, Chemistry, <<"4", ".", "5">>,
            <<"2", "0", "2", "5">>),
     Fields(S2, Bo, <<"2", "2">>, MailB, Chemistry, <<"n", "a", "n">>,
            <<"2", "0", "2", "5">>)}

\* what is retyped in the Update dialog before its button is pressed:
\* nothing, the GPA, the Student ID
Keep == [k \in {} |-> <<>>]

Edits == {Keep, [gpa |-> <<"1", ".", "0">>], [student_id |-> S2]}

Edit(f, e) == [k \in DOMAIN f |-> IF k \in DOMAIN e THEN e[k] ELSE f[k]]

\* the rows of the files chosen for import: a valid one and one whose GPA
\* is above MAX_GPA
GuiCsvRows ==
    {CsvRow(S1, Ann, <<"2", "0">>, MailA, Physics, <<"2", ".", "0">>,
            <<"2", "0", "2", "6">>),
     CsvRow(S2, Bo, <<"2", "2">>, MailB, Chemistry, <<"4", ".", "5">>,
            <<"2", "0", "2", "5">>)}

GuiCsvFiles == SeqsUpTo(GuiCsvRows, MaxRows)

SearchTerms == {S1, S2, Blank}

GuiCall(op, record_id, out) ==
    [op |-> op, record_id |-> record_id, student_id |-> Empty,
     exc |-> out.exc, msg |-> out.msg, value |-> NoValue]

GuiEvent(op) ==
    [op |-> op, record_id |-> 0, student_id |-> Empty, exc |-> "none",
     msg |-> "", value |-> NoValue]

GuiCommit(out) ==
    /\ student' = out.table
    /\ sqlite_sequence' = out.seq
    /\ assigned' = assigned \o Ascending(Ids(out.table) \ Ids(student))
    /\ UNCHANGED <<entryVars, scopeVars>>

\* self.display_all_records() after a successful operation
Refresh(out) ==
    IF out.exc = "none"
    THEN /\ table_items' = display_all_records(out.table)
         /\ selection' = 0
    ELSE UNCHANGED <<table_items, selection>>

\* the loop over database.view_all_records() of on_table_click and of
\* show_context_menu, i being the selected item
SelectByItem(i) ==
    LET found == {r \in student : r.student_id = table_items[i]}
    IN  IF found = {} THEN UNCHANGED <<db_id, selected_record>>
        ELSE \E r \in found : db_id' = r.id /\ selected_record' = r

AddDialogSave ==
    \E f \in AddForms :
      \E out \in {save(student, sqlite_sequence, f)} :
        /\ out.seq <= MaxId
        /\ GuiCommit(out)
        /\ last' = GuiCall("save", 0, out)
        /\ Refresh(out)
        /\ UNCHANGED <<selected_record, db_id, dialog>>

OnTableClick ==
    \E i \in 1..Len(table_items) :
      /\ selection' = i
      /\ SelectByItem(i)
      /\ last' = GuiEvent("on_table_click")
      /\ UNCHANGED <<student, sqlite_sequence, assigned, entryVars, scopeVars,
                     table_items, dialog>>

SearchStudent ==
    \E term \in SearchTerms :
      \E out \in {search_by_student_id(student, sqlite_sequence,
                                       strip(term))} :
        /\ last' = GuiCall("search_student", 0, out)
        /\ LET at == IF out.exc # "none" THEN {}
                     ELSE {i \in 1..Len(table_items) :
                             table_items[i] = out.value.row.student_id}
           IN  IF at = {}
               THEN UNCHANGED <<selection, db_id, selected_record>>
               ELSE /\ selection' = CHOOSE i \in at : \A j \in at : i <= j
                    /\ db_id' = out.value.row.id
                    /\ selected_record' = out.value.row
        /\ UNCHANGED <<student, sqlite_sequence, assigned, entryVars,
                       scopeVars, table_items, dialog>>

ClearSearch ==
    /\ table_items' = display_all_records(student)
    /\ selection' = 0
    /\ last' = GuiEvent("clear_search")
    /\ UNCHANGED <<student, sqlite_sequence, assigned, entryVars, scopeVars,
                   selected_record, db_id, dialog>>

ShowUpdateDialog ==
    /\ selected_record # NoRecord
    /\ dialog = Closed
    /\ dialog' = [open |-> TRUE, fields |-> Prefill(selected_record),
                  opened_for |-> selected_record.id]
    /\ last' = GuiEvent("show_update_dialog")
    /\ UNCHANGED <<student, sqlite_sequence, assigned, entryVars, scopeVars,
                   table_items, selection, selected_record, db_id>>

PressUpdate ==
    /\ dialog.open
    /\ \E e \in Edits :
         \E out \in {update(student, sqlite_sequence, db_id,
                            Edit(dialog.fields, e))} :
           /\ GuiCommit(out)
           /\ last' = GuiCall("update", db_id, out)
           /\ Refresh(out)
           /\ dialog' = IF out.exc = "none" THEN Closed ELSE dialog
    /\ UNCHANGED <<selected_record, db_id>>

CancelUpdate ==
    /\ dialog.open
    /\ dialog' = Closed
    /\ last' = GuiEvent("cancel")
    /\ UNCHANGED <<student, sqlite_sequence, assigned, entryVars, scopeVars,
                   table_items, selection, selected_record, db_id>>

ShowDeleteDialog ==
    /\ selected_record # NoRecord
    /\ \E out \in {delete_record(student, sqlite_sequence, db_id)} :
         /\ GuiCommit(out)
         /\ last' = GuiCall("delete", db_id, out)
         /\ Refresh(out)
    /\ UNCHANGED <<selected_record, db_id, dialog>>

GuiImportCsv ==
    \E rows \in GuiCsvFiles :
      \E out \in {import_csv(student, sqlite_sequence, rows)} :
        /\ out.seq <= MaxId
        /\ GuiCommit(out)
        /\ last' = GuiCall("import_csv", 0, out)
        /\ Refresh(out)
        /\ UNCHANGED <<selected_record, db_id, dialog>>

NextGui ==
    \/ AddDialogSave
    \/ OnTableClick
    \/ SearchStudent
    \/ ClearSearch
    \/ ShowUpdateDialog
    \/ PressUpdate
    \/ CancelUpdate
    \/ ShowDeleteDialog
    \/ GuiImportCsv

SpecGui == Init /\ [][NextGui]_vars

(***************************************************************************)
(* Properties.                                                             *)
(***************************************************************************)
Range(f) == {f[i] : i \in DOMAIN f}

\* the status the specification prescribes for a stored gpa
SpecStatus(gpa) ==
    IF gpa.t = "real" /\ gpa.v >= 2200 THEN "PASS" ELSE "FAIL"

NotFound(table, student_id) ==
    LET f == search_by_student_id(table, 0, student_id)
    IN  f.exc = "ValueError" /\ f.msg = "Student Not Found"

\* C1: in every reachable state no two live records have the same
\* studentId (add, update, delete and CSV import all keep it so).
C1_UniqueStudentId ==
    \A r1 \in student : \A r2 \in student :
        r1.student_id = r2.student_id => r1 = r2

\* an import has added a second record to the store
C1_Witness ==
    /\ last.op = "import"
    /\ last.value.imported >= 1
    /\ Cardinality(student) = 2

\* C2: every stored record's status is the classification of its stored
\* gpa: FAIL below 2.2 or when the gpa is no number, PASS from 2.2 on.
C2_StatusIsClassOfStoredGpa ==
    \A r \in student : r.status = SpecStatus(r.gpa)

\* C3: add with the studentId of an existing record fails with the
\* "Duplicate Student ID" ValueError and changes nothing (stated for a
\* call whose name passes the blank check).
C3_DuplicateAddIsValueError ==
    [][ ( /\ last'.op = "add"
          /\ \E r \in student : r.student_id = last'.student_id
          /\ last'.msg # "Name is Empty" )
        => /\ last'.exc = "ValueError"
           /\ last'.msg = "Duplicate Student ID"
           /\ student' = student
      ]_vars

\* C4: after a successful add, a search for the same studentId returns a
\* record whose seven fields are the add inputs and whose status is the
\* classification of the gpa passed.
C4_AddThenFindReturnsInputs ==
    [][ \A a \in Inputs :
          ( /\ last'.op = "add"
            /\ last'.exc = "none"
            /\ student' = add_student_record(student, sqlite_sequence,
                                             last'.student_id, a.p,
                                             a.gpa).table )
          => LET f == search_by_student_id(student', sqlite_sequence',
                                           last'.student_id)
             IN  /\ f.exc = "none"
                 /\ f.value.row.student_id = last'.student_id
                 /\ f.value.row.name = a.p.name
                 /\ f.value.row.age = a.p.age
                 /\ f.value.row.email = a.p.email
                 /\ f.value.row.department = a.p.department
                 /\ f.value.row.gpa = a.gpa
                 /\ f.value.row.graduation_year = a.p.graduation_year
                 /\ f.value.row.status = SpecStatus(a.gpa)
      ]_vars

\* C5 as stated: update with a recordId no live record has fails with
\* "Record Not Found", whatever the other arguments, and changes nothing.
C5_MissingRecordAlwaysNotFound ==
    [][ (last'.op = "update" /\ last'.record_id \notin Ids(student))
        => /\ last'.exc = "ValueError"
           /\ last'.msg = "Record Not Found"
           /\ student' = student
      ]_vars

\* C5 amended: update with a recordId no live record has changes nothing
\* and fails with "Record Not Found" when studentId and name are not
\* blank, and with the blank-field ValueError when one of them is.
C5_MissingRecordNotFoundOrBlank ==
    \A record_id \in (RecordIds \ {0}) \ Ids(student),
       student_id \in StudentIds, a \in Inputs :
        LET out == update_record(student, sqlite_sequence, record_id,
                                 student_id, a.p, a.gpa)
        IN  /\ out.exc = "ValueError"
            /\ out.table = student
            /\ out.seq = sqlite_sequence
            /\ out.msg = IF IsBlank(student_id) THEN "Student ID is Empty"
                         ELSE IF IsBlank(a.p.name) THEN "Name is Empty"
                         ELSE "Record Not Found"

\* an update of a missing record was refused while records exist
C5_Witness ==
    /\ last.op = "update"
    /\ last.msg = "Record Not Found"
    /\ last.record_id \notin Ids(student)
    /\ student # {}

\* C6: once delete(recordId) has succeeded, a search for the deleted
\* record's studentId fails with "Student Not Found"; and a studentId that
\* is not found stays so until an add, an import or an update stores it.
C6_DeletedStaysNotFound ==
    [][ /\ (last'.op = "delete" /\ last'.exc = "none")
            => \A r \in student :
                   r.id = last'.record_id => NotFound(student', r.student_id)
        /\ \A s \in StudentIds \ {Blank} :
               (NotFound(student, s) /\ ~NotFound(student', s))
               => \/ last'.op \in {"add", "update"} /\ last'.student_id = s
                  \/ last'.op = "import" /\ last'.value.imported >= 1
      ]_vars

\* a delete has just succeeded, and another record is still stored
C6_Witness ==
    /\ last.op = "delete"
    /\ last.exc = "none"
    /\ last.record_id \notin Ids(student)
    /\ student # {}

\* C7: every newly created record gets a recordId that was never assigned
\* before, and a successful update keeps the set of recordIds.
C7_RecordIdNeverReused ==
    [][ /\ \A id \in Ids(student') \ Ids(student) : id \notin Range(assigned)
        /\ last'.op = "update" => Ids(student') = Ids(student)
      ]_vars

\* record 1 was deleted while it had the highest id, and the next add got 2
C7_Witness ==
    /\ last.op = "add"
    /\ last.exc = "none"
    /\ assigned = <<1, 2>>
    /\ Ids(student) = {2}

C9_StatisticsCounts ==
    LET st == get_statistics(student, sqlite_sequence).value
    IN  /\ st.total = Cardinality(student)
        /\ st.pass = Cardinality({r \in student : r.status = "PASS"})
        /\ st.fail = Cardinality({r \in student : r.status = "FAIL"})
        /\ st.pass + st.fail = st.total
        /\ last.op = "statistics" => last.value = st

\* statistics() has just run on a store holding a PASS and a FAIL record
C9_Witness ==
    /\ last.op = "statistics"
    /\ last.value.total = 2
    /\ last.value.pass = 1
    /\ last.value.fail = 1

\* C10: statistics() returns the mean of the stored gpa numbers rounded to
\* two decimals (a NULL gpa holds no number), and 0.0 when there is none;
\* the empty store gives {0, 0, 0, 0.0}, a store with gpa 2.0 gives
\* {1, 0, 1, 2.0}, a store with gpa 2.0 and 3.5 gives {2, 1, 1, 2.75}.
C10_AverageGpa ==
    LET st == get_statistics(student, sqlite_sequence).value
        rows == {r \in student : r.gpa.t = "real"}
        n == Cardinality(rows)
        sum == SumGpa(rows)
        gpas == {r.gpa : r \in student}
    IN  /\ n = 0 => st.avg_gpa = 0
        /\ n > 0 => /\ st.avg_gpa % 10 = 0
                    /\ 2 * (st.avg_gpa * n - sum) <= 10 * n
                    /\ 2 * (sum - st.avg_gpa * n) <= 10 * n
        /\ student = {}
             => st = [kind |-> "stats", total |-> 0, pass |-> 0, fail |-> 0,
                      avg_gpa |-> 0]
        /\ (Cardinality(student) = 1 /\ gpas = {Real(2000)})
             => st = [kind |-> "stats", total |-> 1, pass |-> 0, fail |-> 1,
                      avg_gpa |-> 2000]
        /\ (Cardinality(student) = 2 /\ gpas = {Real(2000), Real(3500)})
             => st = [kind |-> "stats", total |-> 2, pass |-> 1, fail |-> 1,
                      avg_gpa |-> 2750]
        /\ last.op = "statistics" => last.value = st

\* statistics() has just run after gpa 2.0 and gpa 3.5 were added
C10_Witness ==
    /\ last.op = "statistics"
    /\ {r.gpa : r \in student} = {Real(2000), Real(3500)}
    /\ last.value.avg_gpa = 2750

\* C11: CSV import is row-independent: a row that cannot be imported (bad
\* Age/GPA/GraduationYear, blank StudentID or Name, StudentID already in
\* the store) is skipped, the import never aborts, imported + skipped is
\* the number of data rows and imported is the number of records added.
C11_ImportRowIndependent ==
    [][ last'.op = "import"
        => /\ last'.exc = "none"
           /\ last'.value.imported + last'.value.skipped = last'.value.rows
           /\ last'.value.imported
                = Cardinality(student') - Cardinality(student)
      ]_vars

\* the (studentId, name, age, email, department, gpa, graduationYear) tuples
Tuples(table) ==
    {<<r.student_id, r.name, r.age, r.email, r.department, r.gpa,
       r.graduation_year>> : r \in table}

\* C12 as stated: export always writes the header and one row per record,
\* also for an empty store (header and no data row).
C12_ExportAlwaysWritesHeader ==
    last.op = "export"
    => /\ last.value.written
       /\ last.value.header = ExportHeader
       /\ Len(last.value.rows) = Cardinality(student)

\* C12 amended: for a store that is not empty, export writes the header
\* (the seven import columns and Status) and exactly one row per record;
\* for an empty store it writes no file at all.
C12_ExportWritesUnlessEmpty ==
    last.op = "export"
    => IF student = {}
       THEN ~last.value.written
       ELSE /\ last.value.written
            /\ last.value.header = ExportHeader
            /\ Len(last.value.rows) = Cardinality(student)
            /\ \A r \in student :
                   Cardinality({i \in 1..Len(last.value.rows) :
                       last.value.rows[i].StudentID = r.student_id}) = 1

\* an export has just written two records
C12_Witness ==
    /\ last.op = "export"
    /\ last.value.written
    /\ Len(last.value.rows) = 2

\* C13: exporting the store and importing the exported rows into an empty
\* store gives the same seven-column tuples, each status being the one
\* computed from the imported gpa (an empty store exports nothing and
\* imports to nothing).
C13_ExportImportRoundTrip ==
    LET file == export_csv(student, sqlite_sequence).value
        back == import_csv({}, 0, file.rows)
    IN  /\ Tuples(back.table) = Tuples(student)
        /\ \A r \in back.table : r.status = SpecStatus(r.gpa)

\* the empty text and the text of one space
BlankTexts == {<<>>, <<" ">>}

BlankFieldErrors == {"Student ID is Empty", "Name is Empty"}

\* C14: add and update reject an empty or whitespace-only studentId or
\* name with a ValueError and leave the store as it was, so no live record
\* has a blank studentId or a blank name.
C14_BlankIdOrNameRejected ==
    /\ \A r \in student :
           r.student_id \notin BlankTexts /\ r.name \notin BlankTexts
    /\ \A student_id \in StudentIds, a \in Inputs :
           (student_id \in BlankTexts \/ a.p.name \in BlankTexts)
           => /\ LET out == add_student_record(student, sqlite_sequence,
                                               student_id, a.p, a.gpa)
                 IN  /\ out.exc = "ValueError"
                     /\ out.msg \in BlankFieldErrors
                     /\ out.table = student
                     /\ out.seq = sqlite_sequence
              /\ \A record_id \in RecordIds \ {0} :
                   LET out == update_record(student, sqlite_sequence,
                                            record_id, student_id, a.p, a.gpa)
                   IN  /\ out.exc = "ValueError"
                       /\ out.msg \in BlankFieldErrors
                       /\ out.table = student
                       /\ out.seq = sqlite_sequence

\* an update with a whitespace-only studentId has just been rejected, the
\* record it named still stored
C14_Witness ==
    /\ last.op = "update"
    /\ last.student_id = Blank
    /\ last.msg = "Student ID is Empty"
    /\ last.record_id \in Ids(student)

\* C18: a successful update changes only the record with its recordId, a
\* successful delete removes only the record with its recordId, every other
\* live record keeping all nine columns, and an add changes no existing
\* record.
C18_Frame ==
    [][/\ (last'.op = "update" /\ last'.exc = "none")
          => /\ Ids(student') = Ids(student)
             /\ \A r \in student : r.id # last'.record_id => r \in student'
       /\ (last'.op = "delete" /\ last'.exc = "none")
          => student' = {r \in student : r.id # last'.record_id}
       /\ last'.op = "add"
          => /\ student \subseteq student'
             /\ Cardinality(student') <= Cardinality(student) + 1]_vars

\* the record 1 has just been rewritten by a successful update while the
\* record 2 is stored beside it
C18_Witness ==
    /\ last.op = "update"
    /\ last.exc = "none"
    /\ last.record_id = 1
    /\ \E r \in student : r.id = 1 /\ r.student_id = last.student_id
    /\ \E r \in student : r.id = 2

AsciiDigits == {"0", "1", "2", "3", "4", "5", "6", "7", "8", "9"}

\* the number four digit characters write
FourDigitValue(s) ==
    1000 * DigitVal(s[1]) + 100 * DigitVal(s[2]) + 10 * DigitVal(s[3])
        + DigitVal(s[4])

\* C16 as stated: a text is accepted exactly when it is four ASCII digits,
\* and then its integer value is returned; every other text, four digits
\* with whitespace around them included, is rejected.
C16_YearExactlyFourAsciiDigits ==
    year_val # NotValidated
    => LET four == /\ Len(year_str) = 4
                   /\ \A i \in 1..4 : year_str[i] \in AsciiDigits
       IN  /\ year_val.state = "ok" <=> four
           /\ four => year_val.v = FourDigitValue(year_str)
           /\ ~four => year_val = YearError

\* the places i where four decimal digits start that have only
\* whitespace before and after them
PaddedFourDigitsAt(s) ==
    {i \in 1..Len(s) :
        /\ i + 3 <= Len(s)
        /\ \A k \in i..(i + 3) : s[k] \in Digits
        /\ \A k \in 1..Len(s) : (k < i \/ k > i + 3) => s[k] \in Whitespace}

\* C16 amended: a text is accepted exactly when, leading and trailing
\* whitespace removed, it is four decimal digits (ASCII or any other
\* Unicode decimal digit), and then the number they write is returned;
\* every other text is rejected with the ValueError.
C16_YearFourDigitsAfterStrip ==
    year_val # NotValidated
    => LET at == PaddedFourDigitsAt(year_str)
       IN  IF at = {} THEN year_val = YearError
           ELSE \A i \in at :
                  year_val =
                    YearOk(FourDigitValue(SubSeq(year_str, i, i + 3)))

\* four ASCII digits with a space before and a space after them have been
\* accepted as the year they write
C16_Witness ==
    /\ year_str = <<" ", "2", "2", "2", "2", " ">>
    /\ year_val = YearOk(2222)

\* C15: when a store operation has completed, on every exit path, no
\* connection is open; and an operation that failed has committed nothing:
\* the store is as it was when the operation was called.
C15_ConnectionReleasedNothingPartial ==
    [][/\ call' = NoCall => connections' = 0
       /\ (call # NoCall /\ call' = NoCall /\ last'.exc # "none")
          => /\ student' = call.before
             /\ sqlite_sequence' = call.beforeSeq
       /\ (call = NoCall /\ call' = NoCall /\ last'.exc # "none")
          => /\ student' = student
             /\ sqlite_sequence' = sqlite_sequence]_vars

\* a delete of a stored record has failed with the storage failure after
\* its connection was opened, and the record is still stored
C15_Witness ==
    /\ call = NoCall
    /\ connections = 0
    /\ last.op = "delete"
    /\ last.exc = "RuntimeError"
    /\ last.record_id \in Ids(student)

\* C17: after any sequence of Add dialog, Update dialog and CSV import,
\* every stored gpa that is a number lies in [MIN_GPA, MAX_GPA]: a CSV
\* row with a GPA outside the range is skipped rather than stored.
C17_StoredGpaInRange ==
    \A r \in student :
        r.gpa.t = "real" => (MIN_GPA <= r.gpa.v /\ r.gpa.v <= MAX_GPA)

\* C19: whatever happened in the window since the Update dialog was
\* opened, a successful press of its Update button writes to the record
\* whose values were filled into the dialog and leaves every other record
\* as it was.
C19_UpdateWritesOpenedRecord ==
    [][(dialog.open /\ last'.op = "update" /\ last'.exc = "none")
       => /\ last'.record_id = dialog.opened_for
          /\ \A r \in student : r.id # dialog.opened_for => r \in student']_vars

\* C20: whenever selected_record is set, db_id is its recordId and the
\* store holds a live record with that recordId and the same columns.
C20_SelectionValid ==
    selected_record # NoRecord
    => /\ db_id = selected_record.id
       /\ selected_record \in student

====
